---------------------------- MODULE Spec2Model ----------------------------
(***************************************************************************)
(* State-machine model of the word-sense-disambiguation pipeline:          *)
(*   - SemCorDataLoader (src/data_preprocessing.py): the window batcher,   *)
(*     and its variant ElmoSemCorLoader,                                   *)
(*   - BaseTrainer (src/train.py): the training loop with gradient         *)
(*     accumulation, the latest/best checkpoints and resume,               *)
(*   - BaseTrainer._select_senses: the constrained decoder,                *)
(*   - BaseTrainer._print_predictions and RobertaTest.test                 *)
(*     (src/testing.py): the reporting of predictions,                     *)
(*   - SemCorDataset.__init__: the sense vocabulary.                       *)
(* Each component has its own specification (SpecLoader, SpecElmo,         *)
(* SpecTrain, SpecDecode, SpecReport, SpecVocab); the variables of the     *)
(* other components stay at their idle values.                             *)
(***************************************************************************)
EXTENDS Integers, Sequences, FiniteSets, TLC

VARIABLES
    \* ---- SemCorDataLoader ------------------------------------------------
    docs,            \* dataset.docs: the corpus, sorted ascending by length
    batch_size,      \* self.batch_size
    win_size,        \* self.win_size
    overlap_size,    \* self.overlap_size
    last_doc,        \* self.last_doc   (0-based, as in the code)
    last_offset,     \* self.last_offset
    lpc,             \* "new" | "iter" (inside an epoch) | "stopped" (StopIteration raised)
    emitted,         \* the batches returned by __next__ in the current epoch
    prev_emitted,    \* the batches returned in the previous completed epoch
    epochs_done,     \* epochs that ended with StopIteration so far
    \* ---- BaseTrainer -----------------------------------------------------
    num_epochs,          \* self.num_epochs
    accumulation_steps,  \* self.accumulation_steps
    log_interval,        \* self.log_interval
    cache_embeddings,    \* self.cache_embeddings
    n_batches,           \* the number of batches self.rnd_loader yields per epoch
    tpc,                 \* "idle" | "constructed" | "train" | "epoch" | "done" | "error"
    last_epoch,          \* self.last_epoch
    last_step,           \* self.last_step
    min_loss,            \* self.min_loss
    best_f1_micro,       \* self.best_f1_micro
    epoch_iter,          \* the next value of range(last_epoch + 1, num_epochs + 1)
    epoch,               \* epoch_i of the running train_epoch (0 before the first)
    it,                  \* batches of the current epoch already drawn from rnd_loader
    step,                \* train_epoch's step
    local_step,          \* train_epoch's local_step
    flag,                \* train_epoch's flag
    loss,                \* loss of the latest batch (after loss /= accumulation_steps)
    grads,               \* batches whose gradient is summed in the .grad buffers
    unapplied,           \* batches whose gradient no optimizer step has applied yet
    checkpoint,          \* the file at checkpoint_path
    best_model,          \* the file at best_model_path
    restarts,            \* processes started so far after the first
    resumed,             \* the checkpoint this process loaded at construction
    warned,              \* this process logged "Training finished for this checkpoint"
    run_min,             \* smallest loss that triggered a checkpoint in this run (or the restored min_loss)
    eval_max,            \* largest validation F1 evaluated so far, over all runs (-1: none)
    events,              \* what train_epoch did in the current epoch, in order
    last_log,            \* what _log did in the latest step: "none" | "logged" | "saved"
    cache_store,         \* CachedEmbedLoader: the batch ordinals persisted in the cache file
    embed_calls,         \* per batch ordinal, how often the scorer's embedding extraction ran
    \* ---- BaseTrainer: constrained decoding --------------------------------
    b_keys,                 \* per token of the batch, its (lemma, POS) pair
    b_labels,               \* per token, its gold label (NOT_AMB_SYMBOL: not an instance)
    raw_scores,             \* the score tensor as the model returned it
    b_scores,               \* the score tensor (_select_senses overwrites it in place)
    impossible_senses_map,  \* self.impossible_senses_map
    na_padded,              \* self.na_padded
    pred,                   \* the sense ids returned by _select_senses
    dpc,                    \* "idle" | "new" | "warm" | "decoded"
    \* ---- reporting of predictions -----------------------------------------
    r_true,      \* gold ids of the reported tokens (RobertaTest.test)
    r_pred,      \* pred_indices: predicted ids of the reported tokens
    r_wids,      \* amb_word_ids: instance id of each token, "#" for none
    r_out,       \* the lines written so far
    rpc,         \* "idle" | "print" | "analyse" | "done" | "error"
    \* ---- SemCorDataset: the sense vocabulary ------------------------------
    sense2id,          \* the sense2id object of the training dataset
    eval_sense2id,     \* self.sense2id of the dataset loaded after it
    tags_read,         \* the senses of the tag file read last, in file order
    trained_sense2id,  \* sense2id as the training dataset's constructor left it
    vpc                \* "idle" | "new" | "trained" | "loaded"

loaderVars ==
    <<docs, batch_size, win_size, overlap_size, last_doc, last_offset, lpc, emitted,
      prev_emitted, epochs_done>>

trainerConfig == <<num_epochs, accumulation_steps, log_interval, cache_embeddings, n_batches>>

trainerVars ==
    <<trainerConfig, tpc, last_epoch, last_step, min_loss, best_f1_micro, epoch_iter, epoch,
      it, step, local_step, flag, loss, grads, unapplied, checkpoint, best_model,
      restarts, resumed, warned, run_min, eval_max, events, last_log, cache_store,
      embed_calls>>

decoderVars ==
    <<b_keys, b_labels, raw_scores, b_scores, impossible_senses_map, na_padded, pred, dpc>>

reportVars == <<r_true, r_pred, r_wids, r_out, rpc>>

vocabVars == <<sense2id, eval_sense2id, tags_read, trained_sense2id, vpc>>

\* What the actions of one component leave alone.
notLoaderVars == <<trainerVars, decoderVars, reportVars, vocabVars>>
notTrainerVars == <<loaderVars, decoderVars, reportVars, vocabVars>>
notDecoderVars == <<loaderVars, trainerVars, reportVars, vocabVars>>
notReportVars == <<loaderVars, trainerVars, decoderVars, vocabVars>>
notVocabVars == <<loaderVars, trainerVars, decoderVars, reportVars>>

vars == <<loaderVars, trainerVars, decoderVars, reportVars, vocabVars>>

--------------------------------------------------------------------------
\* Bounds of the model.
MaxDocs == 3
MaxDocLen == 7
MaxWin == 5
MaxBatch == 2
MaxEpochs == 2
MaxRunaway == 3

Min(a, b) == IF a <= b THEN a ELSE b
Max(a, b) == IF a >= b THEN a ELSE b

RECURSIVE SetMax(_)
SetMax(S) ==
    LET x == CHOOSE y \in S : TRUE
    IN  IF S = {x} THEN x ELSE Max(x, SetMax(S \ {x}))

RECURSIVE SetMin(_)
SetMin(S) ==
    LET x == CHOOSE y \in S : TRUE
    IN  IF S = {x} THEN x ELSE Min(x, SetMin(S \ {x}))

Range(s) == {s[i] : i \in DOMAIN s}

\* Python's slice index: a negative index counts from the end, and every
\* index is clipped to the sequence.
SliceIndex(i, len) == IF i < 0 THEN Max(0, i + len) ELSE Min(i, len)

\* Python's s[a:b].
Slice(s, a, b) ==
    LET lo == SliceIndex(a, Len(s))
        hi == SliceIndex(b, Len(s))
    IN  IF lo < hi THEN SubSeq(s, lo + 1, hi) ELSE <<>>

\* Python's  [v] * k  (empty for k <= 0).
Repeat(v, k) == [i \in 1..k |-> v]

--------------------------------------------------------------------------
\* SemCorDataset: documents are sequences of tokens; token p of document n
\* is the pair <<n, p>>, so every token of the corpus is distinguishable.
PAD == <<0, 0>>
PadLabel == 0

MakeDoc(n, len) == [p \in 1..len |-> <<n, p>>]

\* dataset.first_senses[n]: one label per token, parallel to the document.
FirstSenses(doc) == [p \in 1..Len(doc) |-> p]

\* The corpora of at most MaxDocs documents, sorted by length as
\* SemCorDataset.__init__ leaves them.
SortedLens ==
    UNION {{ls \in [1..k -> 1..MaxDocLen] :
                \A i \in 1..k : \A j \in 1..k : i <= j => ls[i] <= ls[j]} : k \in 1..MaxDocs}

Corpora == {[n \in 1..Len(ls) |-> MakeDoc(n, ls[n])] : ls \in SortedLens}

NumDocs == Len(docs)

--------------------------------------------------------------------------
\* SemCorDataLoader.__next__

\* lengths = [len(d) for d in docs[last_doc: last_doc + batch_size]]
GroupLengths(ld) == {Len(d) : d \in Range(Slice(docs, ld, ld + batch_size))}

\* end_of_docs = max(lengths) <= last_offset + win_size
EndOfDocs(ld, off) == SetMax(GroupLengths(ld)) <= off + win_size

\* (faulty variant) the loop stops one row early
RowCountOffByOne(ld) == Max(0, Min(batch_size, NumDocs - ld)) - 1

\* the number of rows the for loop builds before `break`
RowCount(ld) == Max(0, Min(batch_size, NumDocs - ld))

\* stop_iter: the loop met last_doc + i >= len(docs)
StopIter(ld) == batch_size >= 1 /\ ld + batch_size > NumDocs

\* one row: the slice, its length and the padding to win_size
TextSpan(n, off) ==
    LET s == Slice(docs[n + 1], off, off + win_size)
    IN  s \o Repeat(PAD, win_size - Len(s))

\* (faulty variant) the length is taken after the padding
SpanLengthAfterPadding(n, off) == win_size

SpanLength(n, off) == Len(Slice(docs[n + 1], off, off + win_size))

Labels(n, off) ==
    LET s == Slice(FirstSenses(docs[n + 1]), off, off + win_size)
    IN  s \o Repeat(PadLabel, win_size - Len(s))

\* (b_x, b_l, b_y); first_doc and offset record where the batch was cut.
BuildBatch(ld, off) ==
    [b_x |-> [i \in 1..RowCount(ld) |-> TextSpan(ld + i - 1, off)],
     b_l |-> [i \in 1..RowCount(ld) |-> SpanLength(ld + i - 1, off)],
     b_y |-> [i \in 1..RowCount(ld) |-> Labels(ld + i - 1, off)],
     first_doc |-> ld,
     offset |-> off]

\* (faulty variant) the offset advances by a whole window
AdvanceNoOverlap(off) == off + win_size

\* (faulty variant) the offset does not advance
AdvanceStuck(off) == off

\* self.last_offset += self.win_size - self.overlap_size
Advance(off) == off + win_size - overlap_size

\* (faulty variant) __iter__ leaves the document cursor where it was
IterDocKept(ld) == ld

\* self.last_doc = 0
IterDoc(ld) == 0

\* A new epoch starts: at the first use of the loader, or after the previous
\* epoch ended with StopIteration.
SemCorDataLoader_iter ==
    /\ lpc \in {"new", "stopped"}
    /\ epochs_done < MaxEpochs
    /\ last_doc' = IterDoc(last_doc)
    /\ last_offset' = 0
    /\ emitted' = <<>>
    /\ prev_emitted' = emitted
    /\ lpc' = "iter"
    /\ UNCHANGED <<docs, batch_size, win_size, overlap_size, epochs_done>>
    /\ UNCHANGED notLoaderVars

\* With overlap_size >= win_size the offset never reaches the end of the
\* group; the model follows such an epoch for MaxRunaway batches.
SemCorDataLoader_next ==
    /\ lpc = "iter"
    /\ overlap_size < win_size \/ Len(emitted) < MaxRunaway
    /\ IF GroupLengths(last_doc) = {}
       THEN \* max(lengths) of an empty list raises ValueError
            /\ lpc' = "error"
            /\ UNCHANGED <<last_doc, last_offset, emitted, epochs_done>>
       ELSE LET batch == BuildBatch(last_doc, last_offset)
                end_of_docs == EndOfDocs(last_doc, last_offset)
                stop_iter == StopIter(last_doc)
            IN  IF end_of_docs
                THEN /\ last_doc' = last_doc + batch_size
                     /\ last_offset' = 0
                     /\ IF stop_iter \/ last_doc' >= NumDocs
                        THEN /\ lpc' = "stopped"        \* raise StopIteration
                             /\ emitted' = emitted      \* the batch just built is not returned
                             /\ epochs_done' = epochs_done + 1
                        ELSE /\ lpc' = "iter"
                             /\ emitted' = Append(emitted, batch)
                             /\ UNCHANGED epochs_done
                ELSE /\ last_doc' = last_doc
                     /\ last_offset' = Advance(last_offset)
                     /\ lpc' = "iter"
                     /\ emitted' = Append(emitted, batch)
                     /\ UNCHANGED epochs_done
    /\ UNCHANGED <<docs, batch_size, win_size, overlap_size, prev_emitted>>
    /\ UNCHANGED notLoaderVars

\* BaseTrainer (src/train.py): bounds, constants and idle state.

MaxBatches == 2
MaxAccumulation == 2
MaxLogInterval == 2
MaxLoss == 1
MaxF1 == 1
MaxRestarts == 1
MaxExtraEpochs == 1

START_EVAL_EPOCH == 14
InitMinLoss == 1000
InitBestF1 == 0

\* Losses and validation F1 scores are drawn from small sets; a loss can be
\* below the initial min_loss or not.
LossValues == (1..MaxLoss) \cup {InitMinLoss}
F1Values == 0..MaxF1

NoFile ==
    [exists |-> FALSE, epoch |-> 0, last_step |-> 0, current_loss |-> 0, min_loss |-> 0,
     f1 |-> 0, pending |-> 0]

\* The variables of the decoder while another component is being checked.
DecoderIdle ==
    /\ b_keys = <<>> /\ b_labels = <<>> /\ raw_scores = <<>> /\ b_scores = <<>>
    /\ impossible_senses_map = <<>> /\ na_padded = <<>> /\ pred = <<>> /\ dpc = "idle"

\* The variables of the reporting and of the vocabulary while another
\* component is being checked.
ReportIdle ==
    /\ r_true = <<>> /\ r_pred = <<>> /\ r_wids = <<>> /\ r_out = <<>> /\ rpc = "idle"
    /\ sense2id = <<>> /\ eval_sense2id = <<>> /\ tags_read = <<>>
    /\ trained_sense2id = <<>> /\ vpc = "idle"

\* The variables of the trainer while another component is being checked.
TrainerIdle ==
    /\ num_epochs = 0 /\ accumulation_steps = 1 /\ log_interval = 1
    /\ cache_embeddings = FALSE /\ n_batches = 0
    /\ tpc = "idle"
    /\ last_epoch = 0 /\ last_step = 0 /\ min_loss = 0 /\ best_f1_micro = 0
    /\ epoch_iter = 0 /\ epoch = 0 /\ it = 0 /\ step = 0 /\ local_step = 0
    /\ flag = FALSE /\ loss = 0 /\ grads = 0 /\ unapplied = 0
    /\ checkpoint = NoFile /\ best_model = NoFile
    /\ restarts = 0 /\ resumed = NoFile /\ run_min = 0 /\ eval_max = 0 /\ events = <<>>
    /\ warned = FALSE
    /\ last_log = "none"
    /\ cache_store = {} /\ embed_calls = <<>>

InitLoader ==
    /\ docs \in Corpora
    /\ batch_size \in 1..MaxBatch
    /\ win_size \in 1..MaxWin
    /\ overlap_size \in 0..(win_size - 1)
    /\ last_doc = 0
    /\ last_offset = 0
    /\ lpc = "new"
    /\ emitted = <<>>
    /\ prev_emitted = <<>>
    /\ epochs_done = 0
    /\ TrainerIdle
    /\ DecoderIdle
    /\ ReportIdle

NextLoader == SemCorDataLoader_iter \/ SemCorDataLoader_next

SpecLoader == InitLoader /\ [][NextLoader]_vars

\* The epoch loop keeps calling __next__ until StopIteration.
SpecLoaderFair == SpecLoader /\ WF_vars(SemCorDataLoader_next)

\* __init__ stores its arguments unchecked: any batch_size from -1 and any
\* overlap_size up to win_size + 1 is a loader the program can construct.
InitLoaderAnyConfig ==
    /\ docs \in Corpora
    /\ batch_size \in (0 - 1)..MaxBatch
    /\ win_size \in 1..MaxWin
    /\ overlap_size \in 0..(win_size + 1)
    /\ last_doc = 0
    /\ last_offset = 0
    /\ lpc = "new"
    /\ emitted = <<>>
    /\ prev_emitted = <<>>
    /\ epochs_done = 0
    /\ TrainerIdle
    /\ DecoderIdle
    /\ ReportIdle

SpecLoaderAnyConfig == InitLoaderAnyConfig /\ [][NextLoader]_vars

--------------------------------------------------------------------------
\* ElmoSemCorLoader (src/data_preprocessing.py): the variant of the batcher
\* that returns ELMo character ids.  It inherits __init__ and __iter__, and
\* so the fields of SemCorDataLoader.

\* the '.' token the variant pads with
Dot == <<0, 1>>

\* batch_to_ids: the character ids of one token
CharIds(tok) == <<"ids", tok>>

\* batch_to_ids(b_x)
BatchToIds(b_x) == [i \in DOMAIN b_x |-> [p \in DOMAIN b_x[i] |-> CharIds(b_x[i][p])]]

\* (faulty variant) the group ends only when the window passes the longest document
ElmoEndOfDocsStrict(ld, off) == off + win_size > SetMax(GroupLengths(ld))

\* end_of_docs = self.last_offset + self.win_size >= max(lengths)
ElmoEndOfDocs(ld, off) == off + win_size >= SetMax(GroupLengths(ld))

ElmoTextSpan(n, off) ==
    LET s == Slice(docs[n + 1], off, off + win_size)
    IN  s \o Repeat(Dot, win_size - Len(s))

ElmoLabels(n, off) ==
    LET s == Slice(FirstSenses(docs[n + 1]), off, off + win_size)
    IN  s \o Repeat(0, win_size - Len(s))

\* (batch_to_ids(b_x), b_l, b_y)
ElmoBuildBatch(ld, off) ==
    [b_x |-> BatchToIds([i \in 1..RowCount(ld) |-> ElmoTextSpan(ld + i - 1, off)]),
     b_l |-> [i \in 1..RowCount(ld) |-> SpanLength(ld + i - 1, off)],
     b_y |-> [i \in 1..RowCount(ld) |-> ElmoLabels(ld + i - 1, off)],
     first_doc |-> ld,
     offset |-> off]

ElmoSemCorLoader_next ==
    /\ lpc = "iter"
    /\ overlap_size < win_size \/ Len(emitted) < MaxRunaway
    /\ IF GroupLengths(last_doc) = {}
       THEN \* max(lengths) of an empty list raises ValueError
            /\ lpc' = "error"
            /\ UNCHANGED <<last_doc, last_offset, emitted, epochs_done>>
       ELSE LET batch == ElmoBuildBatch(last_doc, last_offset)
                end_of_docs == ElmoEndOfDocs(last_doc, last_offset)
                stop_iter == StopIter(last_doc)
            IN  IF end_of_docs
                THEN /\ last_doc' = last_doc + batch_size
                     /\ last_offset' = 0
                     /\ IF stop_iter \/ last_doc' >= NumDocs
                        THEN /\ lpc' = "stopped"        \* raise StopIteration
                             /\ emitted' = emitted
                             /\ epochs_done' = epochs_done + 1
                        ELSE /\ lpc' = "iter"
                             /\ emitted' = Append(emitted, batch)
                             /\ UNCHANGED epochs_done
                ELSE /\ last_doc' = last_doc
                     /\ last_offset' = Advance(last_offset)
                     /\ lpc' = "iter"
                     /\ emitted' = Append(emitted, batch)
                     /\ UNCHANGED epochs_done
    /\ UNCHANGED <<docs, batch_size, win_size, overlap_size, prev_emitted>>
    /\ UNCHANGED notLoaderVars

NextElmo == SemCorDataLoader_iter \/ ElmoSemCorLoader_next

SpecElmo == InitLoader /\ [][NextElmo]_vars

--------------------------------------------------------------------------
\* BaseTrainer (src/train.py)

\* _maybe_load_checkpoint: the fields restored from the file, or the defaults.
LoadedMinLoss(ck) == IF ck.exists THEN ck.min_loss ELSE InitMinLoss
LoadedEpoch(ck) == IF ck.exists THEN ck.epoch ELSE 0
LoadedStep(ck) == IF ck.exists THEN ck.last_step ELSE 0
LoadedF1(ck) == IF ck.exists THEN ck.f1 ELSE InitBestF1

\* _maybe_load_checkpoint: if self.last_epoch >= self.num_epochs: logging.warning(...)
WarnsFinished(ck) == ck.exists /\ ck.epoch >= num_epochs

\* __init__ with is_training: the in-memory state of a new process, given
\* the files it finds.
Construct(ck) ==
    /\ last_epoch' = LoadedEpoch(ck)
    /\ last_step' = LoadedStep(ck)
    /\ min_loss' = LoadedMinLoss(ck)
    /\ best_f1_micro' = LoadedF1(ck)
    /\ resumed' = ck
    /\ warned' = WarnsFinished(ck)
    /\ run_min' = LoadedMinLoss(ck)
    /\ tpc' = "constructed"
    /\ epoch_iter' = 0 /\ epoch' = 0 /\ it' = 0 /\ step' = 0 /\ local_step' = 0
    /\ flag' = FALSE /\ loss' = 0 /\ grads' = 0 /\ unapplied' = 0 /\ events' = <<>>
    /\ last_log' = "none"

\* (faulty variant) zero_grad leaves the gradient buffers as they are
ZeroGradSkipped(g) == g

\* self.model.zero_grad(): the batches summed in the gradient buffers after it
ZeroGrad(g) == 0

\* (faulty variant) the epoch loop starts at the checkpointed epoch itself
FirstEpochOffByOne(le) == le

\* range(self.last_epoch + 1, self.num_epochs + 1): its first value
FirstEpoch(le) == le + 1

\* train(): up to the epoch loop.
BaseTrainer_train ==
    /\ tpc = "constructed"
    /\ epoch_iter' = FirstEpoch(last_epoch)
    /\ tpc' = "train"
    /\ UNCHANGED <<trainerConfig, last_epoch, last_step, min_loss, best_f1_micro, epoch, it,
                   step, local_step, flag, loss, grads, unapplied, checkpoint, best_model,
                   restarts, resumed, warned, run_min, eval_max, events, cache_store,
                   embed_calls>>
    /\ last_log' = "none"
    /\ UNCHANGED notTrainerVars

\* The epoch loop of train() draws the next epoch and train_epoch starts
\* (locals reset, model.zero_grad()), or the range is exhausted.
BaseTrainer_next_epoch ==
    /\ tpc = "train"
    /\ IF epoch_iter <= num_epochs
       THEN /\ epoch' = epoch_iter
            /\ epoch_iter' = epoch_iter + 1
            /\ step' = 0 /\ local_step' = 0 /\ flag' = FALSE
            /\ it' = 0
            /\ grads' = ZeroGrad(grads) /\ unapplied' = 0
            /\ events' = <<"zero">>
            /\ tpc' = "epoch"
       ELSE /\ tpc' = "done"
            /\ UNCHANGED <<epoch, epoch_iter, step, local_step, flag, it, grads, unapplied,
                           events>>
    /\ UNCHANGED <<trainerConfig, last_epoch, last_step, min_loss, best_f1_micro, loss,
                   checkpoint, best_model, restarts, resumed, warned, run_min, eval_max,
                   cache_store, embed_calls>>
    /\ last_log' = "none"
    /\ UNCHANGED notTrainerVars

\* _maybe_checkpoint(loss, epoch_i): the file after the call.  `pend` is
\* the number of batches whose gradient is not applied at that moment.
MaybeCheckpoint(l, e, pend) ==
    IF l < min_loss
    THEN [exists |-> TRUE, epoch |-> e, last_step |-> last_step, current_loss |-> l,
          min_loss |-> l, f1 |-> best_f1_micro, pending |-> pend]
    ELSE checkpoint

\* _save_best(f1, epoch_i): whether the best snapshot is overwritten.
SavesBest(f1) == f1 >= best_f1_micro

\* _log(s, l, e): at a log point, _maybe_checkpoint and then, from
\* START_EVAL_EPOCH on, _evaluate with _save_best.
Log(s, l, e, pend) ==
    IF s % log_interval = 0
    THEN /\ checkpoint' = MaybeCheckpoint(l, e, pend)
         /\ last_log' = IF l < min_loss THEN "saved" ELSE "logged"
         /\ run_min' = IF l < min_loss THEN Min(run_min, l) ELSE run_min
         /\ IF e >= START_EVAL_EPOCH
            THEN \E f1 \in F1Values :
                    /\ eval_max' = Max(eval_max, f1)
                    /\ IF SavesBest(f1)
                       THEN /\ best_f1_micro' = f1
                            /\ best_model' = [NoFile EXCEPT !.exists = TRUE, !.epoch = e, !.f1 = f1]
                       ELSE UNCHANGED <<best_f1_micro, best_model>>
            ELSE UNCHANGED <<eval_max, best_f1_micro, best_model>>
    ELSE /\ last_log' = "none"
         /\ UNCHANGED <<checkpoint, run_min, eval_max, best_f1_micro, best_model>>

\* (faulty variant) the cache loader never finds an ordinal in its store
CacheHitNever(store, ord) == FALSE

\* CachedEmbedLoader: the ordinal is present in the store
CacheHit(store, ord) == ord \in store

\* CachedEmbedLoader.__next__ for the batch of running ordinal ord: load the
\* stored embedding, or extract it with the scorer, persist it and yield it.
CachedEmbedLoader_next(ord) ==
    IF CacheHit(cache_store, ord)
    THEN UNCHANGED <<cache_store, embed_calls>>
    ELSE /\ cache_store' = cache_store \cup {ord}
         /\ embed_calls' = [embed_calls EXCEPT ![ord] = @ + 1]

\* One iteration of the for loop of train_epoch: zip draws the batch and,
\* with caching, its embedding; count() stands in when caching is off.
BaseTrainer_train_batch ==
    /\ tpc = "epoch"
    /\ it < n_batches
    /\ it' = it + 1
    /\ step' = last_step + it                 \* enumerate(self.rnd_loader, self.last_step)
    /\ IF cache_embeddings
       THEN CachedEmbedLoader_next(it + 1)
       ELSE UNCHANGED <<cache_store, embed_calls>>
    /\ IF ~cache_embeddings
       THEN \* b_x_e is None and b_x_e.to(self.device) raises AttributeError
            /\ tpc' = "error"
            /\ last_log' = "none"
            /\ UNCHANGED <<local_step, flag, loss, grads, unapplied, checkpoint, best_model,
                           best_f1_micro, run_min, eval_max, events>>
       ELSE \E l \in LossValues :
            /\ loss' = l
            /\ tpc' = "epoch"
            /\ IF (step' + 1) % accumulation_steps = 0
               THEN /\ local_step' = local_step + 1
                    /\ Log(local_step', l, epoch, unapplied + 1)
                    /\ grads' = ZeroGrad(grads + 1)   \* optimizer.step(); model.zero_grad()
                    /\ unapplied' = 0
                    /\ flag' = FALSE
                    /\ events' = events \o <<"batch", "step", "zero">>
               ELSE /\ flag' = TRUE
                    /\ grads' = grads + 1
                    /\ unapplied' = unapplied + 1
                    /\ events' = Append(events, "batch")
                    /\ last_log' = "none"
                    /\ UNCHANGED <<local_step, checkpoint, best_model, best_f1_micro,
                                   run_min, eval_max>>
    /\ UNCHANGED <<trainerConfig, last_epoch, last_step, min_loss, epoch_iter, epoch,
                   restarts, resumed, warned>>
    /\ UNCHANGED notTrainerVars

\* The end of train_epoch: the step for the remainder and last_step += step.
BaseTrainer_epoch_end ==
    /\ tpc = "epoch"
    /\ it = n_batches
    /\ IF flag
       THEN /\ Log(local_step + 1, loss, epoch, unapplied)
            /\ unapplied' = 0                     \* optimizer.step(), no zero_grad()
            /\ events' = Append(events, "step")
       ELSE /\ last_log' = "none"
            /\ UNCHANGED <<checkpoint, best_model, best_f1_micro, run_min, eval_max,
                           unapplied, events>>
    /\ last_step' = last_step + step
    /\ tpc' = "train"
    /\ UNCHANGED <<trainerConfig, last_epoch, min_loss, epoch_iter, epoch, it, step,
                   local_step, flag, loss, grads, restarts, resumed, warned, cache_store,
                   embed_calls>>
    /\ UNCHANGED notTrainerVars

\* The process is stopped and a new one is constructed on the same files.
BaseTrainer_restart ==
    /\ tpc \in {"train", "epoch", "done"}
    /\ restarts < MaxRestarts
    /\ restarts' = restarts + 1
    /\ Construct(checkpoint)
    /\ UNCHANGED <<trainerConfig, checkpoint, best_model, eval_max, cache_store, embed_calls>>
    /\ UNCHANGED notTrainerVars

\* The variables of the batcher while the trainer is being checked.
LoaderIdle ==
    /\ docs = <<>> /\ batch_size = 1 /\ win_size = 1 /\ overlap_size = 0
    /\ last_doc = 0 /\ last_offset = 0 /\ lpc = "idle" /\ emitted = <<>>
    /\ prev_emitted = <<>> /\ epochs_done = 0

InitTrain ==
    /\ LoaderIdle
    /\ DecoderIdle
    /\ ReportIdle
    /\ num_epochs = START_EVAL_EPOCH + MaxExtraEpochs
    /\ accumulation_steps \in 1..MaxAccumulation
    /\ log_interval \in 1..MaxLogInterval
    /\ cache_embeddings \in BOOLEAN
    /\ n_batches \in 1..MaxBatches
    /\ checkpoint = NoFile
    /\ best_model = NoFile
    /\ restarts = 0
    /\ eval_max = 0 - 1
    /\ cache_store = {}
    /\ embed_calls = [o \in 1..n_batches |-> 0]
    /\ last_epoch = 0                 \* _maybe_load_checkpoint, no file found
    /\ last_step = 0
    /\ min_loss = InitMinLoss
    /\ best_f1_micro = InitBestF1
    /\ resumed = NoFile
    /\ warned = FALSE
    /\ run_min = InitMinLoss
    /\ tpc = "constructed"
    /\ epoch_iter = 0 /\ epoch = 0 /\ it = 0 /\ step = 0 /\ local_step = 0
    /\ flag = FALSE /\ loss = 0 /\ grads = 0 /\ unapplied = 0 /\ events = <<>>
    /\ last_log = "none"

NextTrain ==
    \/ BaseTrainer_train
    \/ BaseTrainer_next_epoch
    \/ BaseTrainer_train_batch
    \/ BaseTrainer_epoch_end
    \/ BaseTrainer_restart

SpecTrain == InitTrain /\ [][NextTrain]_vars

--------------------------------------------------------------------------
\* BaseTrainer: the candidate mask and the constrained decoder (src/train.py)

NumSenses == 2
MaxScore == 1

NOT_AMB_SYMBOL == 0

\* A batch of one window of two tokens: the minimum of the batch can come
\* from the other token.
Tokens == {1, 2}

\* self.all_sense_ids = set(range(len(self.sense2id) + 1))
all_sense_ids == 0..NumSenses

ScoreValues == 0..MaxScore

\* A (lemma, POS) pair is identified by what self.sense2id.get(x.name(), 0)
\* returns over its WordNet synsets x: vocabulary ids, and 0 when a synset
\* of the pair is not in the vocabulary.
Keys == SUBSET (0..NumSenses)

\* to_ids: the ids of the synsets, the 0 of unknown synsets removed
ToIds(key) == key \ {0}

\* list(s) of a set of small integers, in increasing order.
RECURSIVE SetToSeq(_)
SetToSeq(S) ==
    IF S = {} THEN <<>>
    ELSE LET x == SetMin(S) IN <<x>> \o SetToSeq(S \ {x})

\* _set2padded: np.pad(arr, (0, len(sense2id) + 1 - len(s)), 'edge')
Set2Padded(S) ==
    LET arr == SetToSeq(S)
    IN  arr \o Repeat(arr[Len(arr)], NumSenses + 1 - Len(arr))

\* (faulty variant) the inventory's senses themselves are stored as impossible
ImpossibleSensesInverted(sense_ids) == sense_ids \cup {0}

\* self.all_sense_ids - sense_ids
ImpossibleSenses(sense_ids) == all_sense_ids \ sense_ids

\* (faulty variant) only the pad id is masked for tokens that are not instances
NaSensesOnlyPad == {0}

\* the set given to _set2padded for self.na_padded
NaSenses == all_sense_ids

\* _warm_up_sense_ids(loader): na_padded, and one entry per (lemma, POS) of
\* the tokens marked as instances.
BaseTrainer_warm_up_sense_ids ==
    /\ dpc = "new"
    /\ na_padded' = Set2Padded(NaSenses)
    /\ impossible_senses_map' =
          [k \in {b_keys[t] : t \in {u \in Tokens : b_labels[u] # NOT_AMB_SYMBOL}}
              |-> Set2Padded(ImpossibleSenses(ToIds(k)))]
    /\ dpc' = "warm"
    /\ UNCHANGED <<b_keys, b_labels, raw_scores, b_scores, pred>>
    /\ UNCHANGED notDecoderVars

\* (faulty variant) the masked positions are overwritten with the maximum
ClampValueMax(scores) == SetMax({scores[t][v] : t \in Tokens, v \in all_sense_ids})

\* torch.min(b_scores): the minimum over the whole batch
ClampValue(scores) == SetMin({scores[t][v] : t \in Tokens, v \in all_sense_ids})

\* the row of impossible senses gathered for token t
ImpossibleRow(t) ==
    IF b_labels[t] = NOT_AMB_SYMBOL
    THEN na_padded
    ELSE impossible_senses_map[b_keys[t]]

\* b_scores.scatter_(-1, b_impossible_senses, torch.min(b_scores))
Scatter(scores) ==
    LET m == ClampValue(scores)
    IN  [t \in Tokens |->
            [v \in all_sense_ids |->
                IF v \in Range(ImpossibleRow(t)) THEN m ELSE scores[t][v]]]

\* (faulty variant) the last index holding the maximum wins
ArgMaxLast(row) ==
    LET top == SetMax({row[v] : v \in DOMAIN row})
    IN  SetMax({v \in DOMAIN row : row[v] = top})

\* torch.argmax(row): the first index holding the maximum
ArgMax(row) ==
    LET top == SetMax({row[v] : v \in DOMAIN row})
    IN  SetMin({v \in DOMAIN row : row[v] = top})

BaseTrainer_select_senses ==
    /\ dpc = "warm"
    /\ b_scores' = Scatter(b_scores)
    /\ pred' = [t \in Tokens |-> ArgMax(b_scores'[t])]
    /\ dpc' = "decoded"
    /\ UNCHANGED <<b_keys, b_labels, raw_scores, impossible_senses_map, na_padded>>
    /\ UNCHANGED notDecoderVars

\* The gold label of a token marked as an instance, in the model.
InstanceLabel == 1

--------------------------------------------------------------------------
\* Reporting of predictions: BaseTrainer._print_predictions (src/train.py)
\* and RobertaTest.test (src/testing.py)

MaxReported == 3

\* id2sense = {v: k for k, v in self.sense2id.items()}: the ids that have a
\* sense string are 1..len(sense2id); the string of id v is <<"sense", v>>.
Id2Sense == [v \in 1..NumSenses |-> <<"sense", v>>]

\* the instance id of a token that is not an instance
NoWordId == "#"

\* the default of id2sense.get(x, '_')
Unknown == <<"_", 0>>

\* id2sense.get(x, '_')
Id2SenseGet(x) == IF x \in DOMAIN Id2Sense THEN Id2Sense[x] ELSE Unknown

\* _print_predictions: id2sense[pred] of token i raises KeyError
PrintRaises(i) == r_wids[i] # NoWordId /\ r_pred[i] \notin DOMAIN Id2Sense

\* _print_predictions: the lines written for tokens 1..n
RECURSIVE PrintedLines(_)
PrintedLines(n) ==
    IF n = 0 THEN <<>>
    ELSE PrintedLines(n - 1)
            \o (IF r_wids[n] = NoWordId THEN <<>>
                ELSE <<[w_id |-> r_wids[n], sense |-> Id2Sense[r_pred[n]]]>>)

\* the tokens processed before the first exception (all n of them if no
\* token raises)
Completed(raising, n) == IF raising = {} THEN n ELSE SetMin(raising) - 1

BaseTrainer_print_predictions ==
    /\ rpc = "print"
    /\ LET done == Completed({i \in DOMAIN r_pred : PrintRaises(i)}, Len(r_pred))
       IN  /\ r_out' = PrintedLines(done)
           /\ rpc' = IF done = Len(r_pred) THEN "done" ELSE "error"
    /\ UNCHANGED <<r_true, r_pred, r_wids>>
    /\ UNCHANGED notReportVars

\* RobertaTest.test: token i is reported as an error
IsReportedError(i) ==
    Id2SenseGet(r_true[i]) # Unknown /\ Id2SenseGet(r_true[i]) # Id2SenseGet(r_pred[i])

\* RobertaTest.test: wn.synset(p_key) fails on the sentinel, which names no
\* synset
AnalyseRaises(i) == IsReportedError(i) /\ Id2SenseGet(r_pred[i]) = Unknown

\* RobertaTest.test: the errors printed for tokens 1..n
RECURSIVE AnalysedLines(_)
AnalysedLines(n) ==
    IF n = 0 THEN <<>>
    ELSE AnalysedLines(n - 1)
            \o (IF IsReportedError(n)
                THEN <<[w_id |-> n, sense |-> Id2SenseGet(r_pred[n])]>>
                ELSE <<>>)

RobertaTest_test ==
    /\ rpc = "analyse"
    /\ LET done == Completed({i \in DOMAIN r_pred : AnalyseRaises(i)}, Len(r_pred))
       IN  /\ r_out' = AnalysedLines(done)
           /\ rpc' = IF done = Len(r_pred) THEN "done" ELSE "error"
    /\ UNCHANGED <<r_true, r_pred, r_wids>>
    /\ UNCHANGED notReportVars

\* The predictions of up to MaxReported tokens, as _select_senses returns
\* them (any id of the vocabulary, 0 included), about to be reported.
InitReport ==
    /\ LoaderIdle
    /\ TrainerIdle
    /\ DecoderIdle
    /\ sense2id = <<>> /\ eval_sense2id = <<>> /\ tags_read = <<>>
    /\ trained_sense2id = <<>> /\ vpc = "idle"
    /\ rpc \in {"print", "analyse"}
    /\ \E n \in 1..MaxReported :
          /\ r_pred \in [1..n -> 0..NumSenses]
          /\ IF rpc = "print"
             THEN /\ r_wids \in [1..n -> {NoWordId, "w"}]
                  /\ r_true = [i \in 1..n |-> 0]
             ELSE /\ r_true \in [1..n -> 0..NumSenses]
                  /\ r_wids = [i \in 1..n |-> NoWordId]
    /\ r_out = <<>>

NextReport == BaseTrainer_print_predictions \/ RobertaTest_test

SpecReport == InitReport /\ [][NextReport]_vars

InitDecode ==
    /\ LoaderIdle
    /\ TrainerIdle
    /\ ReportIdle
    /\ b_labels \in [Tokens -> {NOT_AMB_SYMBOL, InstanceLabel}]
    /\ b_keys \in [Tokens -> Keys]
    /\ \A t \in Tokens : b_labels[t] = NOT_AMB_SYMBOL => b_keys[t] = {}
    /\ 0 \notin b_keys[2]       \* synsets outside the vocabulary: on token 1 only
    /\ raw_scores \in [Tokens -> [all_sense_ids -> ScoreValues]]
    /\ b_scores = raw_scores
    /\ impossible_senses_map = <<>>
    /\ na_padded = <<>>
    /\ pred = <<>>
    /\ dpc = "new"

NextDecode == BaseTrainer_warm_up_sense_ids \/ BaseTrainer_select_senses

SpecDecode == InitDecode /\ [][NextDecode]_vars

--------------------------------------------------------------------------
\* Properties of the decoder.

IsInstance(t) == b_labels[t] # NOT_AMB_SYMBOL

\* the complement array memoized for the token's (lemma, POS) pair
ComplementOf(t) == Range(impossible_senses_map[b_keys[t]])

BatchMinimum ==
    CHOOSE m \in ScoreValues :
        /\ \E t \in Tokens : \E v \in all_sense_ids : raw_scores[t][v] = m
        /\ \A t \in Tokens : \A v \in all_sense_ids : raw_scores[t][v] >= m

\* the valid senses of token t whose raw score is above the batch minimum
ValidAboveMin(t) ==
    {v \in all_sense_ids \ ComplementOf(t) : raw_scores[t][v] > BatchMinimum}

GatheredComplement(t) == IF IsInstance(t) THEN ComplementOf(t) ELSE Range(na_padded)

--------------------------------------------------------------------------
\* SemCorDataset.__init__: the sense vocabulary (src/data_preprocessing.py)

MaxStrings == 3
MaxTags == 3

\* Sense strings are numbered 1..MaxStrings; a tag file is the sequence of
\* the senses of its lines, in file order.
SenseStrings == 1..MaxStrings
TagFiles == UNION {[1..n -> SenseStrings] : n \in 0..MaxTags}

\* defaultdict(lambda: -1): the value given to a key that is looked up
\* while missing
UnseenId == 0 - 1

\* list(c.keys()): the distinct senses in order of first occurrence
RECURSIVE CounterKeys(_)
CounterKeys(tags) ==
    IF tags = <<>> THEN <<>>
    ELSE LET front == CounterKeys(SubSeq(tags, 1, Len(tags) - 1))
             last == tags[Len(tags)]
         IN  IF last \in Range(front) THEN front ELSE Append(front, last)

\* for i, w in enumerate(list(c.keys()), start=1): sense2id[w] = i
Enumerate(keys) ==
    [w \in Range(keys) |-> CHOOSE i \in 1..Len(keys) : keys[i] = w]

\* sense2id[k] for every k of the tag file, on a defaultdict: a missing key
\* is inserted with the default value
LookUpAll(map, tags) ==
    [w \in DOMAIN map \cup Range(tags) |-> IF w \in DOMAIN map THEN map[w] ELSE UnseenId]

\* SemCorDataset(train_data, train_tags): no sense2id given, it is built.
SemCorDataset_init_train ==
    /\ vpc = "new"
    /\ \E tags \in TagFiles :
          /\ tags_read' = tags
          /\ sense2id' = LookUpAll(Enumerate(CounterKeys(tags)), tags)
    /\ trained_sense2id' = sense2id'
    /\ eval_sense2id' = eval_sense2id
    /\ vpc' = "trained"
    /\ UNCHANGED notVocabVars

\* SemCorDataset(eval_data, eval_tags, sense2id=train.sense2id): an empty
\* sense2id is falsy, and then the dataset builds one of its own.
SemCorDataset_init_eval ==
    /\ vpc = "trained"
    /\ \E tags \in TagFiles :
          /\ tags_read' = tags
          /\ IF DOMAIN sense2id = {}
             THEN /\ eval_sense2id' = LookUpAll(Enumerate(CounterKeys(tags)), tags)
                  /\ sense2id' = sense2id
             ELSE /\ sense2id' = LookUpAll(sense2id, tags)
                  /\ eval_sense2id' = sense2id'
    /\ vpc' = "loaded"
    /\ UNCHANGED trained_sense2id
    /\ UNCHANGED notVocabVars

InitVocab ==
    /\ LoaderIdle
    /\ TrainerIdle
    /\ DecoderIdle
    /\ r_true = <<>> /\ r_pred = <<>> /\ r_wids = <<>> /\ r_out = <<>> /\ rpc = "idle"
    /\ sense2id = <<>>
    /\ eval_sense2id = <<>>
    /\ tags_read = <<>>
    /\ trained_sense2id = <<>>
    /\ vpc = "new"

NextVocab == SemCorDataset_init_train \/ SemCorDataset_init_eval

SpecVocab == InitVocab /\ [][NextVocab]_vars

--------------------------------------------------------------------------
\* Properties of the vocabulary.

Injective(map) == \A a \in DOMAIN map : \A b \in DOMAIN map : map[a] = map[b] => a = b

\* C20: the vocabulary built from the training data is a bijection between
\* sense strings and ids, and loading another dataset with it adds no entry,
\* changes none and never makes two strings share an id.
C20_VocabularyFrozen ==
    /\ vpc \in {"trained", "loaded"} => Injective(sense2id)
    /\ vpc = "loaded" => sense2id = trained_sense2id

\* What the code does: the vocabulary is a bijection onto 1..n after the
\* training dataset, and loading another dataset keeps its entries and adds
\* every unseen sense of that dataset with id -1.
C20_UnseenSensesAreAdded ==
    /\ vpc = "trained"
          => /\ Injective(sense2id)
             /\ DOMAIN sense2id = Range(tags_read)
             /\ {sense2id[w] : w \in DOMAIN sense2id} = 1..Cardinality(Range(tags_read))
    /\ (vpc = "loaded" /\ DOMAIN trained_sense2id # {})
          => /\ DOMAIN sense2id = DOMAIN trained_sense2id \cup Range(tags_read)
             /\ \A w \in DOMAIN sense2id :
                   sense2id[w] = (IF w \in DOMAIN trained_sense2id
                                  THEN trained_sense2id[w] ELSE UnseenId)

--------------------------------------------------------------------------
\* Properties of the reporting.

\* the tokens that must appear in the report
Reportable ==
    IF r_wids \in [DOMAIN r_wids -> {NoWordId}]
    THEN {i \in DOMAIN r_pred : Id2SenseGet(r_true[i]) # Unknown /\ r_true[i] # r_pred[i]}
    ELSE {i \in DOMAIN r_pred : r_wids[i] # NoWordId}

\* C17: reporting never fails; every token to report gets its line, with the
\* sentinel when its predicted id has no sense string.
C17_UnknownSenseRecovered ==
    /\ rpc # "error"
    /\ rpc = "done" => Len(r_out) = Cardinality(Reportable)

--------------------------------------------------------------------------
\* Properties of the trainer.

\* C5: the best snapshot always holds the largest validation F1 evaluated so
\* far (over a stop and resume too) and its recorded F1 never decreases.
C5_BestSnapshotIsMaximum ==
    /\ [](best_model.exists => best_model.f1 = eval_max)
    /\ [][best_model.exists => (best_model'.exists /\ best_model'.f1 >= best_model.f1)]_vars

\* C6: at a log point the latest checkpoint is written exactly when the
\* logged loss is strictly below the running minimum (the smallest loss that
\* triggered a checkpoint so far in the run, or the restored min_loss), so
\* the min_loss values stored by successive checkpoints strictly decrease.
C6_CheckpointIffBelowRunningMinimum ==
    [][last_log' # "none" => (last_log' = "saved" <=> loss' < run_min)]_vars

\* What train_epoch must do in an epoch of n batches, according to C7.
RECURSIVE ExpectedEvents(_, _)
ExpectedEvents(n, acc) ==
    IF n = 0 THEN <<"zero">>
    ELSE ExpectedEvents(n - 1, acc)
            \o (IF n % acc = 0 THEN <<"batch", "step", "zero">> ELSE <<"batch">>)

\* C7: in every completed epoch gradients are zeroed at the start, a step and
\* a zeroing follow each group of accumulation_steps batches of the epoch,
\* and one more step is applied at the end iff the batch count is not a
\* multiple of accumulation_steps.
C7_StepEveryAccumulationSteps ==
    (tpc = "train" /\ epoch >= 1)
        => events = ExpectedEvents(n_batches, accumulation_steps)
                        \o (IF n_batches % accumulation_steps # 0 THEN <<"step">> ELSE <<>>)

\* C8: a checkpoint is written only when no accumulated gradient is pending.
C8_CheckpointAtStepBoundary == checkpoint.exists => checkpoint.pending = 0

\* C18: with caching disabled every training step completes: no batch of
\* train_epoch raises an error.
C18_TrainsWithoutCache == ~cache_embeddings => tpc # "error"

\* C19: with caching enabled the embedding extraction runs at most once per
\* batch ordinal over the whole run (restarts included): an ordinal whose
\* embedding is stored has been extracted exactly once, any other never.
C19_EmbedOncePerOrdinal ==
    cache_embeddings
        => \A o \in DOMAIN embed_calls :
              embed_calls[o] = (IF o \in cache_store THEN 1 ELSE 0)

\* C19 witness: a second pass has drawn every batch from the cache.
C19_Witness ==
    /\ cache_embeddings
    /\ epoch = 2
    /\ n_batches = MaxBatches
    /\ it = n_batches
    /\ \A o \in 1..n_batches : embed_calls[o] = 1

\* C9: a process that loaded a checkpoint of epoch e < num_epochs keeps the
\* checkpoint's min_loss, passes e + 1 to train_epoch first, then the epochs
\* in increasing order up to num_epochs, and never an epoch <= e.
C9_ResumeAtNextEpoch ==
    /\ []((resumed.exists /\ resumed.epoch < num_epochs)
            => /\ min_loss = resumed.min_loss
               /\ epoch # 0 => (resumed.epoch < epoch /\ epoch <= num_epochs)
               /\ tpc = "done" => epoch = num_epochs)
    /\ [][(resumed.exists /\ resumed.epoch < num_epochs /\ resumed' = resumed /\ epoch' # epoch
             /\ restarts' = restarts)
            => epoch' = (IF epoch = 0 THEN resumed.epoch + 1 ELSE epoch + 1)]_vars

\* C9 witness: a process resumed from the checkpoint of epoch 5 has run the
\* epochs up to num_epochs.
C9_Witness ==
    /\ resumed.exists
    /\ resumed.epoch = 5
    /\ tpc = "done"
    /\ epoch = num_epochs

\* the process loaded a checkpoint whose epoch is not below num_epochs
ResumedPastEnd == resumed.exists /\ resumed.epoch >= num_epochs

\* C21: a process that loaded a checkpoint of an epoch >= num_epochs logs the
\* warning, and its train() runs no epoch (train_epoch is never entered, no
\* batch is drawn, no optimizer step is applied), writes neither the latest
\* checkpoint nor the best snapshot, and ends without an error.
C21_ResumePastEndIsNoOp ==
    /\ [](ResumedPastEnd
            => /\ warned
               /\ tpc \in {"constructed", "train", "done"}
               /\ epoch = 0 /\ it = 0 /\ events = <<>>)
    /\ [][(ResumedPastEnd /\ restarts' = restarts)
            => (checkpoint' = checkpoint /\ best_model' = best_model)]_vars

\* C21 witness: a process resumed from a checkpoint of the last epoch has
\* returned from train().
C21_Witness ==
    /\ ResumedPastEnd
    /\ warned
    /\ tpc = "done"

\* C23: the latest checkpoint is written, with the running epoch recorded in
\* it, only when every batch of that epoch has been processed (the batch
\* being logged is the last one of the epoch), so that resuming at the next
\* epoch skips no batch.
C23_CheckpointAtEpochEnd ==
    [][last_log' = "saved" => (checkpoint'.epoch = epoch' /\ it' = n_batches)]_vars

\* C24: in a run started without a checkpoint, after every completed epoch
\* last_step is the number of batches processed so far (epoch * n_batches),
\* and the indices enumerated inside an epoch continue that count.
C24_LastStepCountsBatches ==
    restarts = 0
        => /\ (tpc \in {"train", "done"} /\ epoch >= 1) => last_step = epoch * n_batches
           /\ (tpc = "epoch" /\ it >= 1) => step = (epoch - 1) * n_batches + it - 1

\* What the code does: train_epoch ends with last_step += step, where step
\* is the last enumerated index last_step + n_batches - 1, so that after k
\* epochs last_step = (2^k - 1) * (n_batches - 1).
C24_LastStepDoubles ==
    restarts = 0
        => /\ (tpc \in {"train", "done"} /\ epoch >= 1)
                 => last_step = (2 ^ epoch - 1) * (n_batches - 1)
           /\ (tpc = "epoch" /\ it >= 1)
                 => step = (2 ^ (epoch - 1) - 1) * (n_batches - 1) + it - 1

\* C27: every batch contributes its gradient to exactly one optimizer step.
\* Inside an epoch the gradient buffers hold the batches no step has applied
\* yet and nothing else (so a step never applies a gradient again); the
\* step at the end of the epoch is taken exactly when at least one batch is
\* waiting (flag), and between epochs and after the last one no batch is
\* left unapplied.
C27_EachGradientAppliedOnce ==
    /\ tpc = "epoch" => (grads = unapplied /\ (flag <=> unapplied >= 1))
    /\ tpc \in {"train", "done"} => unapplied = 0

\* C27 witness: an epoch of two batches ended with a step after the first
\* batch and the remainder step after the second, whose gradient is still
\* in the buffers.
C27_Witness ==
    /\ tpc = "train"
    /\ events = <<"zero", "batch", "step", "zero", "batch", "step">>
    /\ grads = 1
    /\ unapplied = 0

--------------------------------------------------------------------------
\* Properties of the batcher.

\* The valid span (first valid_length tokens) of row i of a batch.
ValidSpan(batch, i) == SubSeq(batch.b_x[i], 1, batch.b_l[i])

\* The row of document n (0-based) in a batch, 0 when the batch has none.
RowOf(batch, n) ==
    IF batch.first_doc <= n /\ n < batch.first_doc + Len(batch.b_x)
    THEN n - batch.first_doc + 1
    ELSE 0

\* The valid spans of document n's windows, concatenated in emission order.
RECURSIVE Reconstruct(_, _)
Reconstruct(bs, n) ==
    IF bs = <<>> THEN <<>>
    ELSE LET r == RowOf(Head(bs), n)
         IN  (IF r = 0 THEN <<>> ELSE ValidSpan(Head(bs), r)) \o Reconstruct(Tail(bs), n)

\* C1: with overlap 0, once the epoch has ended, the valid spans of the
\* windows emitted for a document, concatenated in emission order, are
\* exactly the document, for every document of the corpus.
C1_ReconstructsEveryDocument ==
    (lpc = "stopped" /\ overlap_size = 0)
        => \A n \in 0..(NumDocs - 1) : Reconstruct(emitted, n) = docs[n + 1]

ScenarioConfig ==
    /\ docs = <<MakeDoc(1, 3), MakeDoc(2, 7)>>
    /\ win_size = 5
    /\ overlap_size = 1
    /\ batch_size = 2

Rows(batch) == {<<batch.b_x[i], batch.b_l[i]>> : i \in 1..Len(batch.b_x)}

ScenarioBatch1 ==
    {<<[p \in 1..5 |-> <<2, p>>], 5>>,
     <<[p \in 1..5 |-> IF p <= 3 THEN <<1, p>> ELSE PAD], 3>>}

ScenarioBatch2 ==
    {<<[p \in 1..5 |-> IF p <= 3 THEN <<2, p + 4>> ELSE PAD], 3>>,
     <<[p \in 1..5 |-> PAD], 0>>}

\* C3: in the scenario the batcher emits batch 1, advances last_offset to 4,
\* emits batch 2, and ends the group with last_offset 0 and last_doc 2.
C3_Scenario ==
    /\ (ScenarioConfig /\ lpc = "iter" /\ Len(emitted) = 1)
          => (Rows(emitted[1]) = ScenarioBatch1 /\ last_offset = 4 /\ last_doc = 0)
    /\ (ScenarioConfig /\ lpc = "stopped")
          => /\ Len(emitted) = 2
             /\ Rows(emitted[1]) = ScenarioBatch1
             /\ Rows(emitted[2]) = ScenarioBatch2
             /\ last_offset = 0
             /\ last_doc = 2

\* What the code does in the scenario: batch 2 is built but never returned.
C3_ScenarioAsCoded ==
    /\ (ScenarioConfig /\ lpc = "iter" /\ Len(emitted) = 1)
          => (Rows(emitted[1]) = ScenarioBatch1 /\ last_offset = 4 /\ last_doc = 0)
    /\ (ScenarioConfig /\ lpc = "stopped")
          => /\ Len(emitted) = 1
             /\ Rows(emitted[1]) = ScenarioBatch1
             /\ last_offset = 0
             /\ last_doc = 2

\* C22: once the epoch has ended, every token of every document lies in the
\* valid span of at least one emitted window (with 0 <= overlap_size <
\* win_size and batch_size >= 1): every batch that was built was delivered.
C22_EveryTokenDelivered ==
    lpc = "stopped"
        => \A n \in 1..NumDocs : \A p \in 1..Len(docs[n]) :
              \E k \in 1..Len(emitted) : \E i \in 1..Len(emitted[k].b_x) :
                 docs[n][p] \in Range(ValidSpan(emitted[k], i))

\* C11: every window of every emitted batch, token row and label row, has
\* length win_size; valid_length is the number of tokens the document has
\* from the batch's offset on, at most win_size and at least 0; the first
\* valid_length positions are those tokens (labels) and every later
\* position holds the pad value.
C11_WindowsPaddedToWinSize ==
    \A k \in 1..Len(emitted) :
        LET b == emitted[k]
        IN  \A i \in 1..Len(b.b_x) :
                LET doc == docs[b.first_doc + i]
                    real == Max(0, Min(win_size, Len(doc) - b.offset))
                IN  /\ Len(b.b_x[i]) = win_size
                    /\ Len(b.b_y[i]) = win_size
                    /\ b.b_l[i] = real
                    /\ 0 <= b.b_l[i] /\ b.b_l[i] <= win_size
                    /\ \A p \in 1..win_size :
                          IF p <= real
                          THEN /\ b.b_x[i][p] = doc[b.offset + p]
                               /\ b.b_y[i][p] = FirstSenses(doc)[b.offset + p]
                          ELSE /\ b.b_x[i][p] = PAD
                               /\ b.b_y[i][p] = PadLabel

\* C11 witness: an emitted batch with a partly filled window and a window
\* that is all padding.
C11_Witness ==
    \E k \in 1..Len(emitted) :
        /\ \E i \in 1..Len(emitted[k].b_x) :
              0 < emitted[k].b_l[i] /\ emitted[k].b_l[i] < win_size
        /\ \E i \in 1..Len(emitted[k].b_x) : emitted[k].b_l[i] = 0

\* C12: with overlap_size > 0, when two consecutively emitted batches are cut
\* from the same group, each document whose earlier window is full and whose
\* later window has at least overlap_size real tokens has the last
\* overlap_size tokens of the earlier window equal, position by position, to
\* the first overlap_size tokens of the later one.
C12_OverlapIsShared ==
    overlap_size > 0
        => \A k \in 1..(Len(emitted) - 1) :
              LET a == emitted[k]
                  b == emitted[k + 1]
              IN  a.first_doc = b.first_doc
                     => \A i \in 1..Len(a.b_x) :
                           (a.b_l[i] = win_size /\ b.b_l[i] >= overlap_size)
                              => \A p \in 1..overlap_size :
                                    /\ a.b_x[i][win_size - overlap_size + p] = b.b_x[i][p]
                                    /\ a.b_y[i][win_size - overlap_size + p] = b.b_y[i][p]

\* C12 witness: two consecutive windows of one document sharing two tokens.
C12_Witness ==
    /\ overlap_size = 2
    /\ \E k \in 1..(Len(emitted) - 1) :
          /\ emitted[k].first_doc = emitted[k + 1].first_doc
          /\ \E i \in 1..Len(emitted[k].b_x) :
                /\ emitted[k].b_l[i] = win_size
                /\ emitted[k + 1].b_l[i] >= overlap_size

IsPrefix(s, t) == Len(s) <= Len(t) /\ SubSeq(t, 1, Len(s)) = s

\* C13: an epoch started after a completed epoch emits the same batches in
\* the same order as that epoch did (tokens, valid lengths and labels), and
\* ends after the same number of batches.
C13_EpochsReplay ==
    epochs_done >= 1
        => /\ lpc # "error"
           /\ lpc = "iter" => IsPrefix(emitted, prev_emitted)
           /\ (lpc = "stopped" /\ epochs_done >= 2) => emitted = prev_emitted

\* C13 witness: a second epoch has ended after three batches, the cursor of
\* the first epoch having been left past the end of the corpus.
C13_Witness ==
    /\ epochs_done = 2
    /\ lpc = "stopped"
    /\ Len(prev_emitted) >= 3
    /\ last_doc > NumDocs

\* C14: every epoch is finite.  Inside an epoch the cursors stay in a finite
\* range (last_doc below len(docs), last_offset below the longest document
\* of the group), no __next__ fails, and each __next__ that returns a batch
\* either keeps the group and moves last_offset forward, or moves last_doc
\* forward to the next group with last_offset 0; the call that raises
\* StopIteration moves last_doc to the end of the corpus or beyond.
C14_EpochTerminates ==
    /\ [](lpc # "error")
    /\ [](lpc = "iter"
            => /\ 0 <= last_doc /\ last_doc < NumDocs
               /\ 0 <= last_offset
               /\ last_offset < SetMax({Len(docs[n]) : n \in (last_doc + 1)..NumDocs}))
    /\ [][(lpc = "iter" /\ lpc' = "iter")
            => \/ last_doc' = last_doc /\ last_offset' > last_offset
               \/ last_doc' > last_doc /\ last_offset' = 0]_vars
    /\ [][(lpc = "iter" /\ lpc' = "stopped")
            => (last_doc' > last_doc /\ last_doc' >= NumDocs)]_vars

\* C14, as a liveness property under SpecLoaderFair: an epoch that has
\* started eventually raises StopIteration.
C14_EventuallyStops == (lpc = "iter") ~> (lpc = "stopped")

\* C14 witness: an epoch over three groups, the last of several windows, has
\* ended.
C14_Witness ==
    /\ lpc = "stopped"
    /\ batch_size = 1
    /\ NumDocs = 3
    /\ Len(emitted) >= 5

\* the cursor states of the current corpus: a document group and an offset
CursorStates == (0..(NumDocs - 1)) \X (0..MaxDocLen)

\* C26 (as claimed): on the corpus and configuration of an epoch of the
\* variant there is a cursor state for which the termination condition of
\* the base batcher and that of the variant give different answers.
C26_TerminationDiffers ==
    lpc = "stopped"
        => \E c \in CursorStates : ElmoEndOfDocs(c[1], c[2]) # EndOfDocs(c[1], c[2])

\* C26 (amended): the two conditions are the same inequality with its sides
\* swapped.  For every cursor state they give the same answer, and every
\* __next__ of the variant moves the cursors as the base batcher's condition
\* and update prescribe, so both visit the same cursor sequence.
C26_SameTermination ==
    /\ [](\A c \in CursorStates : ElmoEndOfDocs(c[1], c[2]) = EndOfDocs(c[1], c[2]))
    /\ [][lpc = "iter"
            => IF EndOfDocs(last_doc, last_offset)
               THEN /\ last_doc' = last_doc + batch_size
                    /\ last_offset' = 0
                    /\ lpc' = (IF StopIter(last_doc) \/ last_doc' >= NumDocs
                               THEN "stopped" ELSE "iter")
               ELSE /\ last_doc' = last_doc
                    /\ last_offset' = Advance(last_offset)
                    /\ lpc' = "iter"]_vars

\* C26 witness: an epoch of the variant has ended in which a group went on
\* to a second window and a group ended with its window reaching exactly the
\* end of the longest document, where <= and < would part.
C26_Witness ==
    /\ lpc = "stopped"
    /\ \E k \in 1..(Len(emitted) - 1) : emitted[k].first_doc = emitted[k + 1].first_doc
    /\ \E k \in 1..Len(emitted) :
          /\ SetMax(GroupLengths(emitted[k].first_doc)) = emitted[k].offset + win_size
          /\ k < Len(emitted) => emitted[k + 1].first_doc > emitted[k].first_doc

\* C15: a loader whose overlap_size is not below win_size, or whose
\* batch_size is not positive, never starts an epoch and never builds a batch.
C15_BadConfigRejected ==
    (overlap_size >= win_size \/ batch_size <= 0)
        => (lpc \notin {"iter", "stopped", "error"} /\ emitted = <<>>)

==========================================================================
